---- MODULE Spec2Model ----
(***************************************************************************)
(* jmetal/util/visualization/plotting.py: class Plot.                      *)
(*                                                                         *)
(* The program is sequential: every public method of Plot runs to its      *)
(* return or to the exception that leaves it.  One action models one call  *)
(* of a public method.  The plotting library is modelled by the ordered    *)
(* record `log` of the calls the method makes on it (figure, add_subplot,  *)
(* scatter, set_title, savefig, show, ...), which is the whole observable  *)
(* effect of the class.                                                    *)
(*                                                                         *)
(* Python values: a value that may be None is the record                   *)
(* [none |-> BOOLEAN, v |-> value]; objective values (floats) are positive *)
(* integers; NaN is the integer -1; a normalised value is the fraction     *)
(* <<numerator, denominator>> and 0/0 is NaN.  Sequences are 1-based: the  *)
(* Python index i is the index i + 1 here.                                 *)
(***************************************************************************)
EXTENDS Integers, Sequences, FiniteSets, TLC

VARIABLES
    plot_title,       \* self.plot_title
    reference_front,  \* self.reference_front
    reference_point,  \* self.reference_point
    axis_labels,      \* self.axis_labels
    status,           \* "idle" | "returned" | "raised"
    error,            \* the exception that left the call, "none" otherwise
    method,           \* the public method that was called
    args,             \* the arguments of that call
    log,              \* the calls made on the plotting library, in order
    result            \* the value get_points returned

vars == <<plot_title, reference_front, reference_point, axis_labels,
          status, error, method, args, log, result>>

----------------------------------------------------------------------------
(* Bounds of the model *)

MaxFronts == 5   \* fronts in one call
MaxSols == 2     \* solutions in one front
MaxDim == 4      \* objectives of one solution

----------------------------------------------------------------------------
(* Python values *)

NoneSeq == [none |-> TRUE, v |-> <<>>]
NoneStr == [none |-> TRUE, v |-> ""]
Some(x) == [none |-> FALSE, v |-> x]

\* bool(x) of a list or None
Truthy(x) == ~x.none /\ x.v # <<>>
\* bool(x) of a str or None
TruthyStr(x) == ~x.none /\ x.v # ""

NaN == -1

Max(a, b) == IF a >= b THEN a ELSE b

RECURSIVE SeqMax(_)
SeqMax(s) == IF s = <<>> THEN 0 ELSE Max(Head(s), SeqMax(Tail(s)))

\* a solution: the two attributes the module reads
Solution(objs) == [objectives |-> objs, number_of_objectives |-> Len(objs)]

----------------------------------------------------------------------------
(* get_points *)

\* pd.DataFrame(list of rows): one row per list, one column per position of
\* the longest row, the shorter rows filled with NaN
DataFrame(rowlist) ==
    LET ncols == SeqMax([r \in 1..Len(rowlist) |-> Len(rowlist[r])])
    IN [rows |-> [r \in 1..Len(rowlist) |->
                    [c \in 1..ncols |->
                        IF c <= Len(rowlist[r]) THEN rowlist[r][c] ELSE NaN]],
        ncols |-> ncols]

NoFrame == DataFrame(<<>>)

\* get_points with `if not solutions` for `if solutions is None`
get_points_falsy(solutions) ==
    IF ~Truthy(solutions)
    THEN [err |-> "Front is none!", points |-> NoFrame, dim |-> 0]
    ELSE LET points == DataFrame([r \in 1..Len(solutions.v) |->
                                      solutions.v[r].objectives])
         IN [err |-> "none", points |-> points, dim |-> points.ncols]

\* Plot.get_points(solutions), solutions a list or None:
\* [err, points, dim]
get_points(solutions) ==
    IF solutions.none
    THEN [err |-> "Front is none!", points |-> NoFrame, dim |-> 0]
    ELSE LET points == DataFrame([r \in 1..Len(solutions.v) |->
                                      solutions.v[r].objectives])
         IN [err |-> "none", points |-> points, dim |-> points.ncols]

----------------------------------------------------------------------------
(* The plotting library, as the record of the calls made on it.  `ax` is   *)
(* the axes object the call is made on: the ax-th one add_subplot created, *)
(* 0 for a call on the figure or on pyplot itself.                         *)

Ev(op, ax, arg) == [op |-> op, ax |-> ax, arg |-> arg]
NoArg == [none |-> TRUE]

\* the outcome of a piece of code: the library calls it made and the
\* exception that ended it ("none": it ran to its end)
Ok(evs) == [log |-> evs, err |-> "none"]
Raise(e) == [log |-> <<>>, err |-> e]
Skip == Ok(<<>>)

\* statements in sequence: the first exception ends the run
RECURSIVE Run(_)
Run(steps) ==
    IF Len(steps) = 0 THEN Skip
    ELSE IF Head(steps).err # "none" THEN Head(steps)
    ELSE LET rest == Run(Tail(steps))
         IN [log |-> Head(steps).log \o rest.log, err |-> rest.err]

\* int(np.floor(np.sqrt(k))) for int(np.ceil(np.sqrt(k)))
CeilSqrt_floor(k) == CHOOSE n \in 0..k : n * n <= k /\ (n + 1) * (n + 1) > k

\* int(np.ceil(np.sqrt(k)))
CeilSqrt(k) == CHOOSE n \in 0..k : n * n >= k /\ (n = 0 \/ (n - 1) * (n - 1) < k)

\* plt.show() moved out of the else branch
SaveOrShow_always_show(filename, format, dpi) ==
    IF TruthyStr(filename)
    THEN Ok(<<Ev("savefig", 0, [fname |-> filename.v, format |-> format, dpi |-> dpi]),
              Ev("show", 0, NoArg)>>)
    ELSE Ok(<<Ev("show", 0, NoArg)>>)

\* if filename: plt.savefig(filename, format=format, dpi=dpi) else: plt.show()
SaveOrShow(filename, format, dpi) ==
    IF TruthyStr(filename)
    THEN Ok(<<Ev("savefig", 0, [fname |-> filename.v, format |-> format, dpi |-> dpi])>>)
    ELSE Ok(<<Ev("show", 0, NoArg)>>)

\* fig = plt.figure(); fig.suptitle(self.plot_title, fontsize=16)
NewFigure ==
    Ok(<<Ev("figure", 0, NoArg), Ev("suptitle", 0, [title |-> plot_title])>>)

CloseFigure == Ok(<<Ev("close", 0, NoArg)>>)

\* if labels: ax.set_title(labels[i])
SetTitle(labels, idx) ==
    IF ~Truthy(labels) THEN Skip
    ELSE IF idx > Len(labels.v) THEN Raise("IndexError")
    ELSE Ok(<<Ev("set_title", idx, [title |-> labels.v[idx]])>>)

----------------------------------------------------------------------------
(* two_dim *)

\* one pass of the loop of two_dim, for fronts[idx - 1]
TwoDimBody(fronts, labels, n, reference, idx) ==
    LET gp == get_points(Some(fronts[idx]))
    IN Run(<<
        Ok(<<Ev("add_subplot", idx,
                [nrows |-> n, ncols |-> n, index |-> idx, projection |-> "rectilinear"])>>),
        \* points.plot(kind='scatter', x=0, y=1): pandas raises KeyError for
        \* a column the frame does not have
        IF gp.dim < 2 THEN Raise("KeyError")
        ELSE Ok(<<Ev("scatter", idx, [points |-> gp.points])>>),
        SetTitle(labels, idx),
        IF ~Truthy(reference_front) THEN Skip
        ELSE IF reference.ncols < 2 THEN Raise("KeyError")
        ELSE Ok(<<Ev("reference_front", idx, [points |-> reference])>>),
        IF ~Truthy(reference_point) THEN Skip
        ELSE IF Len(reference_point.v) < 2 THEN Raise("IndexError")
        ELSE Ok(<<Ev("reference_point", idx,
                     [x |-> reference_point.v[1], y |-> reference_point.v[2]])>>),
        IF ~Truthy(axis_labels) THEN Skip
        ELSE IF Len(axis_labels.v) < 2 THEN Raise("IndexError")
        ELSE Ok(<<Ev("xlabel", idx, [text |-> axis_labels.v[1]]),
                  Ev("ylabel", idx, [text |-> axis_labels.v[2]])>>)
    >>)

two_dim(fronts, labels, filename, format) ==
    LET n == CeilSqrt(Len(fronts))
        reference == IF Truthy(reference_front)
                     THEN get_points(reference_front).points
                     ELSE NoFrame
    IN Run(<<
        Ok(<<Ev("enter", 0, [method |-> "two_dim"])>>),
        NewFigure,
        Run([idx \in 1..Len(fronts) |-> TwoDimBody(fronts, labels, n, reference, idx)]),
        SaveOrShow(filename, format, 200),
        CloseFigure
    >>)

----------------------------------------------------------------------------
(* three_dim *)

Frames == 20   \* FuncAnimation(fig, animate, frames=20, ...)

\* [s.objectives[c - 1] for s in front]
Coordinate(front, c) == [r \in 1..Len(front) |-> front[r].objectives[c]]

\* the three coordinate lists handed to ax.scatter; IndexError for a
\* solution with fewer than three objectives
Scatter3d(op, idx, front) ==
    IF \E r \in 1..Len(front) : Len(front[r].objectives) < 3
    THEN Raise("IndexError")
    ELSE Ok(<<Ev(op, idx, [xs |-> Coordinate(front, 1), ys |-> Coordinate(front, 2),
                           zs |-> Coordinate(front, 3)])>>)

\* one pass of the loop of three_dim, for fronts[idx - 1]
ThreeDimBody(fronts, labels, n, idx) ==
    Run(<<
        Ok(<<Ev("add_subplot", idx,
                [nrows |-> n, ncols |-> n, index |-> idx, projection |-> "3d"])>>),
        Scatter3d("scatter3d", idx, fronts[idx]),
        SetTitle(labels, idx),
        IF ~Truthy(reference_front) THEN Skip
        ELSE Scatter3d("reference_front", idx, reference_front.v),
        \* if self.reference_point: pass
        Skip,
        Ok(<<Ev("relim", idx, NoArg),
             Ev("autoscale_view", idx, NoArg),
             Ev("view_init", idx, [elev |-> 30, azim |-> 15]),
             Ev("locator_params", idx, NoArg)>>)
    >>)

\* animate(i), i = frame: ax.view_init(elev=10., azim=i) on the axes the
\* name ax is bound to when the frame is drawn, which is the one the last
\* pass of the loop created; no pass, no binding: NameError
Animate(k, frame) ==
    IF k = 0 THEN Raise("NameError")
    ELSE Ok(<<Ev("view_init", k, [elev |-> 10, azim |-> frame])>>)

\* anim.save(filename + '.gif', writer=PillowWriter(fps=24)): draws every
\* frame, then writes the file
AnimSave(k, filename) ==
    Run(<<
        Run([f \in 1..Frames |-> Animate(k, f - 1)]),
        Ok(<<Ev("anim_save", 0, [fname |-> filename.v \o ".gif", fps |-> 24])>>)
    >>)

three_dim(fronts, labels, filename, format) ==
    LET n == CeilSqrt(Len(fronts))
    IN Run(<<
        Ok(<<Ev("enter", 0, [method |-> "three_dim"])>>),
        NewFigure,
        Run([idx \in 1..Len(fronts) |-> ThreeDimBody(fronts, labels, n, idx)]),
        IF TruthyStr(filename) /\ format = "gif"
        THEN AnimSave(Len(fronts), filename)
        ELSE SaveOrShow(filename, format, 1000),
        CloseFigure
    >>)

----------------------------------------------------------------------------
(* pcoords *)

\* the values of column c, NaN left out (pandas min and max skip NaN)
Column(points, c) ==
    {points.rows[r][c] : r \in 1..Len(points.rows)} \ {NaN}

SetMin(S) == CHOOSE x \in S : \A y \in S : x <= y
SetMax(S) == CHOOSE x \in S : \A y \in S : x >= y

\* (points - points.min()) / (points.max() - points.min()), column by
\* column; a cell is the fraction <<numerator, denominator>>
Normalize(points) ==
    [fractions |-> [r \in 1..Len(points.rows) |->
                [c \in 1..points.ncols |->
                    LET v == points.rows[r][c]
                        col == Column(points, c)
                    IN IF v = NaN \/ SetMax(col) = SetMin(col)
                       THEN <<0, 0>>
                       ELSE <<v - SetMin(col), SetMax(col) - SetMin(col)>>]],
     ncols |-> points.ncols]

\* one pass of the loop of pcoords, for fronts[idx - 1]
PcoordsBody(fronts, normalize, n, idx) ==
    LET gp == get_points(Some(fronts[idx]))
        points == IF normalize THEN Normalize(gp.points) ELSE gp.points
    IN Run(<<
        Ok(<<Ev("add_subplot", idx,
                [nrows |-> n, ncols |-> n, index |-> idx, projection |-> "rectilinear"])>>),
        \* parallel_coordinates(points, 0, ax=ax): pandas raises KeyError
        \* without the class column 0, and IndexError (its x[0]) when no
        \* column is left beside it
        IF gp.dim = 0 THEN Raise("KeyError")
        ELSE IF gp.dim = 1 THEN Raise("IndexError")
        ELSE Ok(<<Ev("parallel_coordinates", idx, [points |-> points])>>),
        Ok(<<Ev("legend_remove", idx, NoArg)>>),
        IF ~Truthy(axis_labels) THEN Skip
        ELSE Ok(<<Ev("set_xticklabels", idx, [labels |-> axis_labels.v])>>)
    >>)

pcoords(fronts, normalize, filename, format) ==
    LET n == CeilSqrt(Len(fronts))
    IN Run(<<
        Ok(<<Ev("enter", 0, [method |-> "pcoords"])>>),
        NewFigure,
        Run([idx \in 1..Len(fronts) |-> PcoordsBody(fronts, normalize, n, idx)]),
        SaveOrShow(filename, format, 1000),
        CloseFigure
    >>)

----------------------------------------------------------------------------
(* plot *)

\* plot with front[-1][0] for front[0][0]
plot_last_front(front, label, normalize, filename, format) ==
    IF Len(front.fronts) = 0 /\ Len(front.sols) = 0
    THEN Raise("IndexError")
    ELSE LET fronts == IF front.nested THEN front.fronts ELSE <<front.sols>>
         IN IF Len(fronts[1]) = 0 THEN Raise("IndexError")
            ELSE LET dimension == fronts[Len(fronts)][1].number_of_objectives
                 IN IF dimension = 2 THEN two_dim(fronts, label, filename, format)
                    ELSE IF dimension = 3 THEN three_dim(fronts, label, filename, format)
                    ELSE pcoords(fronts, normalize, filename, format)

\* The argument front is a list whose elements are either all solutions
\* (nested = FALSE: one front, the list `sols`) or all lists of solutions
\* (nested = TRUE: a list of fronts, the list `fronts`);
\* isinstance(front[0], list) is `nested` when there is a front[0].
plot(front, label, normalize, filename, format) ==
    IF Len(front.fronts) = 0 /\ Len(front.sols) = 0
    THEN Raise("IndexError")                              \* front[0]
    ELSE LET fronts == IF front.nested THEN front.fronts ELSE <<front.sols>>
         IN IF Len(fronts[1]) = 0 THEN Raise("IndexError")  \* front[0][0]
            ELSE LET dimension == fronts[1][1].number_of_objectives
                 IN IF dimension = 2 THEN two_dim(fronts, label, filename, format)
                    ELSE IF dimension = 3 THEN three_dim(fronts, label, filename, format)
                    ELSE pcoords(fronts, normalize, filename, format)

----------------------------------------------------------------------------
(* The values the calls are made with *)

Dims == 1..MaxDim

\* solution s of a problem with d objectives; its objective c is 10 s + c
Sol(d, s) == Solution([c \in 1..d |-> 10 * s + c])

\* front j of a problem with d objectives, m solutions
Front(d, j, m) == [r \in 1..m |-> Sol(d, 10 * j + r)]

\* single fronts: of one problem, or of solutions that differ in their
\* number of objectives
SingleFronts ==
    {Front(d, 1, m) : d \in Dims, m \in 0..MaxSols}
    \cup {<<Sol(d1, 1), Sol(d2, 2)>> : d1 \in Dims, d2 \in Dims}

\* lists of one front or more: of one problem, or of fronts that differ in
\* their number of objectives, or holding the empty front
FrontLists ==
    {[j \in 1..k |-> Front(d, j, m)] :
        d \in Dims, k \in 1..MaxFronts, m \in 1..MaxSols}
    \cup {<<Front(d1, 1, 1), Front(d2, 2, 1)>> : d1 \in Dims, d2 \in Dims}
    \cup {<< <<>> >>}

OneFront(solutions) == [nested |-> FALSE, sols |-> solutions, fronts |-> <<>>]
ListOfFronts(fronts) == [nested |-> TRUE, sols |-> <<>>, fronts |-> fronts]

ReferenceFronts ==
    {NoneSeq, Some(<<>>)} \cup {Some(Front(d, 9, 2)) : d \in 2..3}
ReferencePoints == {NoneSeq, Some(<<>>), Some(<<7, 8, 9>>)}
AxisLabels == {NoneSeq, Some(<<"x", "y", "z">>)}

TitleNames == <<"t1", "t2", "t3", "t4", "t5", "t6">>
Titles(k) == SubSeq(TitleNames, 1, k)
Labels == {NoneSeq, Some(<<>>), Some(Titles(1)), Some(Titles(MaxFronts))}
Filenames == {NoneStr, Some(""), Some("front")}
Formats == {"eps", "gif"}

NoArgs == [front |-> ListOfFronts(<<>>), label |-> NoneSeq,
           normalize |-> FALSE, filename |-> NoneStr, format |-> "eps",
           solutions |-> NoneSeq]

----------------------------------------------------------------------------
(* The state machine *)

\* Plot(reference_front=..., reference_point=..., axis_labels=...)
Init ==
    /\ plot_title = "jMetalPy"
    /\ reference_front \in ReferenceFronts
    /\ reference_point \in ReferencePoints
    /\ axis_labels \in AxisLabels
    /\ status = "idle"
    /\ error = "none"
    /\ method = "none"
    /\ args = NoArgs
    /\ log = <<>>
    /\ result = [points |-> NoFrame, dim |-> 0]

\* the call ends: r is its outcome
Finish(m, a, r) ==
    /\ method' = m
    /\ args' = a
    /\ log' = r.log
    /\ error' = r.err
    /\ status' = IF r.err = "none" THEN "returned" ELSE "raised"
    /\ UNCHANGED <<plot_title, reference_front, reference_point, axis_labels>>

\* Plot.get_points(solutions)
GetPointsCall ==
    /\ status = "idle"
    /\ \E solutions \in {NoneSeq} \cup {Some(f) : f \in SingleFronts} :
        LET gp == get_points(solutions)
        IN /\ Finish("get_points", [NoArgs EXCEPT !.solutions = solutions],
                     [log |-> <<>>, err |-> gp.err])
           /\ result' = IF gp.err = "none"
                        THEN [points |-> gp.points, dim |-> gp.dim]
                        ELSE result

\* self.plot(front, label, normalize, filename, format), front a single
\* front or a list of fronts
PlotCall ==
    /\ status = "idle"
    /\ \E nested \in BOOLEAN, label \in Labels, normalize \in BOOLEAN,
          filename \in Filenames, format \in Formats :
        \E f \in IF nested THEN FrontLists ELSE SingleFronts :
            LET front == IF nested THEN ListOfFronts(f) ELSE OneFront(f)
            IN Finish("plot",
                      [NoArgs EXCEPT !.front = front, !.label = label,
                                     !.normalize = normalize,
                                     !.filename = filename, !.format = format],
                      plot(front, label, normalize, filename, format))
    /\ UNCHANGED result

\* self.two_dim(fronts, labels, filename, format)
TwoDimCall ==
    /\ status = "idle"
    /\ \E fronts \in FrontLists \cup {<<>>}, labels \in Labels,
          filename \in Filenames, format \in Formats :
        Finish("two_dim",
               [NoArgs EXCEPT !.front = ListOfFronts(fronts), !.label = labels,
                              !.filename = filename, !.format = format],
               two_dim(fronts, labels, filename, format))
    /\ UNCHANGED result

\* self.three_dim(fronts, labels, filename, format)
ThreeDimCall ==
    /\ status = "idle"
    /\ \E fronts \in FrontLists \cup {<<>>}, labels \in Labels,
          filename \in Filenames, format \in Formats :
        Finish("three_dim",
               [NoArgs EXCEPT !.front = ListOfFronts(fronts), !.label = labels,
                              !.filename = filename, !.format = format],
               three_dim(fronts, labels, filename, format))
    /\ UNCHANGED result

\* self.pcoords(fronts, normalize, filename, format)
PcoordsCall ==
    /\ status = "idle"
    /\ \E fronts \in FrontLists \cup {<<>>}, normalize \in BOOLEAN,
          filename \in Filenames, format \in Formats :
        Finish("pcoords",
               [NoArgs EXCEPT !.front = ListOfFronts(fronts),
                              !.normalize = normalize,
                              !.filename = filename, !.format = format],
               pcoords(fronts, normalize, filename, format))
    /\ UNCHANGED result

Next ==
    \/ GetPointsCall
    \/ PlotCall
    \/ TwoDimCall
    \/ ThreeDimCall
    \/ PcoordsCall

Spec == Init /\ [][Next]_vars

----------------------------------------------------------------------------
(* Reading the state *)

Returned == status = "returned"
Rendering == method \in {"plot", "two_dim", "three_dim", "pcoords"}

\* the fronts of the call, a single front counted as a list of one
TheFronts == IF args.front.nested THEN args.front.fronts ELSE <<args.front.sols>>

\* the positions of the log holding one of the operations ops
Pos(ops) == {p \in 1..Len(log) : log[p].op \in ops}
\* ... made on the axes j
PosOn(ops, j) == {p \in Pos(ops) : log[p].ax = j}

Ops(ops) == SelectSeq(log, LAMBDA e : e.op \in ops)

\* the rendering methods entered, in order
Entered == [i \in 1..Len(Ops({"enter"})) |-> Ops({"enter"})[i].arg.method]

NumSubplots == Len(Ops({"add_subplot"}))

Writes == Ops({"savefig", "anim_save"})
Shows == Ops({"show"})

----------------------------------------------------------------------------
(* C1 *)

HasFirstSolution == Len(TheFronts) > 0 /\ Len(TheFronts[1]) > 0

BranchOf(d) == IF d = 2 THEN "two_dim" ELSE IF d = 3 THEN "three_dim" ELSE "pcoords"

\* C1: a call of plot enters exactly one rendering method, exactly once,
\* and which one is decided by the number of objectives of the first
\* solution of the first front alone: two_dim for 2, three_dim for 3,
\* pcoords for every other number.  (Without a first solution plot raises
\* before it enters any.)
C1_DispatchOnFirstSolution ==
    method = "plot" =>
        IF HasFirstSolution
        THEN Entered = <<BranchOf(TheFronts[1][1].number_of_objectives)>>
        ELSE Entered = <<>> /\ error = "IndexError"

\* plot of a front whose first solution has 4 objectives and whose second
\* has 2: routed to pcoords
C1_Witness ==
    /\ method = "plot" /\ Returned
    /\ ~args.front.nested /\ Len(args.front.sols) = 2
    /\ args.front.sols[1].number_of_objectives = 4
    /\ args.front.sols[2].number_of_objectives = 2
    /\ Entered = <<"pcoords">>

----------------------------------------------------------------------------
(* C2, C3 *)

\* C2: in a call of plot that returns, every subplot overlays the
\* reference front when the Plot has a non-empty one, and none does when
\* it has none (None or empty).
C2_ReferenceFrontOnEverySubplot ==
    (method = "plot" /\ Returned) =>
        \A j \in 1..NumSubplots :
            (PosOn({"reference_front"}, j) # {}) <=> Truthy(reference_front)

\* C3: in a call of plot that returns, every subplot draws the reference
\* point when the Plot has a non-empty one, and none does when it has none.
C3_ReferencePointOnEverySubplot ==
    (method = "plot" /\ Returned) =>
        \A j \in 1..NumSubplots :
            (PosOn({"reference_point"}, j) # {}) <=> Truthy(reference_point)

----------------------------------------------------------------------------
(* C4 *)

\* the first value of the data drawn by the log entry e
FirstDrawn(e) == IF e.op = "scatter3d" THEN e.arg.xs[1] ELSE e.arg.points.rows[1][1]

\* C4: a rendering call that returns has created exactly k subplots for
\* its k fronts (a single front handed to plot: k = 1), the i-th on an
\* n-by-n grid with n = ceil(sqrt(k)), in cell i, holding the data of the
\* i-th front; every cell lies in 1..n*n and no two subplots share one.
C4_OneCellPerFront ==
    (Rendering /\ Returned) =>
        LET k == Len(TheFronts)
            adds == Ops({"add_subplot"})
        IN /\ (method = "plot" /\ ~args.front.nested) => k = 1
           /\ Len(adds) = k
           /\ \A i \in 1..k :
                LET n == adds[i].arg.nrows
                IN /\ adds[i].ax = i
                   /\ adds[i].arg.ncols = n
                   /\ n * n >= k /\ (n - 1) * (n - 1) < k
                   /\ adds[i].arg.index = i
                   /\ adds[i].arg.index \in 1..(n * n)
           /\ \A i, j \in 1..k : i # j => adds[i].arg.index # adds[j].arg.index
           /\ \A i \in 1..k :
                \E p \in PosOn({"scatter", "scatter3d", "parallel_coordinates"}, i) :
                    (Len(TheFronts[i]) > 0
                       /\ ~(log[p].op = "parallel_coordinates" /\ args.normalize)) =>
                        FirstDrawn(log[p]) = TheFronts[i][1].objectives[1]

\* plot of a list of five fronts, returned: the fifth in cell 5 of a
\* 3-by-3 grid
C4_Witness ==
    /\ method = "plot" /\ Returned
    /\ args.front.nested /\ Len(args.front.fronts) = 5
    /\ NumSubplots = 5
    /\ Ops({"add_subplot"})[5].arg = [nrows |-> 3, ncols |-> 3, index |-> 5,
                                       projection |-> "rectilinear"]

----------------------------------------------------------------------------
(* C5 *)

\* C5: a rendering call that returns has written the figure exactly once
\* and never shown it when the filename is non-empty, and has shown it
\* exactly once and written nothing when the filename is None or empty;
\* every subplot was created and its data drawn before that.  A call that
\* raises has written or shown at most once.
C5_WriteXorShowAfterDrawing ==
    Rendering =>
        /\ Len(Writes) + Len(Shows) <= 1
        /\ Returned =>
            /\ IF TruthyStr(args.filename)
               THEN Len(Writes) = 1 /\ Len(Shows) = 0
               ELSE Len(Writes) = 0 /\ Len(Shows) = 1
            /\ \A i \in 1..Len(TheFronts) :
                 /\ PosOn({"add_subplot"}, i) # {}
                 /\ PosOn({"scatter", "scatter3d", "parallel_coordinates"}, i) # {}
            /\ \A o \in Pos({"savefig", "anim_save", "show"}) :
                 \A p \in Pos({"add_subplot", "scatter", "scatter3d",
                               "parallel_coordinates", "set_title",
                               "reference_front", "reference_point"}) : p < o

\* two fronts plotted into a file
C5_Witness ==
    /\ method = "plot" /\ Returned
    /\ TruthyStr(args.filename)
    /\ NumSubplots = 2
    /\ Len(Ops({"savefig"})) = 1

----------------------------------------------------------------------------
(* C6 *)

\* C6: a call of plot with a filename that returns has written an
\* animation, under the name passed, when the format is 'gif', and a
\* static image, under the name passed, with any other format.
C6_AnimationIffGif ==
    (method = "plot" /\ Returned /\ TruthyStr(args.filename)) =>
        /\ Len(Writes) = 1
        /\ Writes[1].arg.fname = args.filename.v
        /\ Writes[1].op = IF args.format = "gif" THEN "anim_save" ELSE "savefig"

----------------------------------------------------------------------------
(* C7 *)

\* C7: a call of plot that returns has titled the subplot of front i with
\* label[i], for every i, when label holds one title per front, and has
\* set no title when label is None or empty.
C7_TitlePerFront ==
    (method = "plot" /\ Returned) =>
        /\ (Truthy(args.label) /\ Len(args.label.v) = Len(TheFronts)) =>
              \A i \in 1..Len(TheFronts) :
                  \E p \in PosOn({"set_title"}, i) : log[p].arg.title = args.label.v[i]
        /\ ~Truthy(args.label) => Pos({"set_title"}) = {}

----------------------------------------------------------------------------
(* C8 *)

\* C8: get_points raises 'Front is none!' for None and for nothing else
\* (nor does any other call end with that error); for a list of solutions
\* it returns a table with one row per solution, in order, whose cell
\* (r, c) is objective c of solution r, with one column per objective
\* (of the solution that has most), and the number of those columns, 0 for
\* the empty list.
C8_GetPoints ==
    /\ error = "Front is none!" => (method = "get_points" /\ args.solutions.none)
    /\ method = "get_points" =>
        IF args.solutions.none
        THEN status = "raised" /\ error = "Front is none!"
        ELSE LET sols == args.solutions.v
                 rows == result.points.rows
             IN /\ Returned
                /\ Len(rows) = Len(sols)
                /\ \A r \in 1..Len(sols) :
                     /\ Len(rows[r]) = result.dim
                     /\ Len(sols[r].objectives) <= result.dim
                     /\ \A c \in 1..Len(sols[r].objectives) :
                          rows[r][c] = sols[r].objectives[c]
                /\ \/ Len(sols) = 0 /\ result.dim = 0
                   \/ \E r \in 1..Len(sols) : Len(sols[r].objectives) = result.dim

\* get_points of two solutions
C8_Witness ==
    /\ method = "get_points" /\ Returned
    /\ Len(args.solutions.v) = 2
    /\ Len(result.points.rows) = 2
    /\ result.dim = 3

----------------------------------------------------------------------------
(* C9 *)

\* C9: three_dim writing a gif of k >= 1 fronts sets, in each of the 20
\* frames i = 0..19, the view of every one of the k subplots to elevation
\* 10 and azimuth i.
C9_EverySubplotRotates ==
    (Rendering /\ Returned /\ Entered # <<>> /\ Len(Ops({"anim_save"})) = 1) =>
        \A f \in 0..(Frames - 1) :
            \A j \in 1..NumSubplots :
                \E p \in PosOn({"view_init"}, j) :
                    log[p].arg.elev = 10 /\ log[p].arg.azim = f

====
